---- MODULE Spec2Model ----
(***************************************************************************)
(* A model of the /process-case pipeline of the medical document           *)
(* processor: app/api/routes.py (process_case and its helpers),            *)
(* app/services/uploader.py, app/services/ai_pipeline.py,                  *)
(* app/services/supabase_service.py, app/utils/temp_storage.py and the     *)
(* naming scheme of converter/converter.py.                                *)
(*                                                                         *)
(* One behaviour is one request.  The request's inputs (the uploaded       *)
(* files, the case id, the form notes) are chosen in Init; every answer of *)
(* an external service and every filesystem outcome is chosen when the     *)
(* handler reaches the call.                                               *)
(***************************************************************************)
EXTENDS Integers, Sequences, FiniteSets, TLC

VARIABLES
    pc,                 \* position of process_case
    files,              \* the uploaded files (UploadFile list)
    case_id,            \* form field case_id
    additional_data,    \* form field additional_data
    request_id,         \* local request_id (NoneStr until the directory is made)
    workDir,            \* TRUE while /tmp/uploads/<request_id> exists
    rawDir,             \* content of <request dir>/raw: a set of saved files
    saveIdx,            \* number of uploaded files the save loop has visited
    saved_files,        \* local saved_files (paths returned by save_uploaded_file)
    document_files,     \* local document_files
    text_files,         \* local text_files
    convIdx,            \* number of documents handed to the converter
    imagesDir,          \* content of IMAGES_OUTPUT_DIR: a set of image files
    image_paths,        \* local image_paths after the rename (names i<k>.jpeg)
    upload_urls,        \* the filenames that have an upload URL
    s3_keys,            \* filename -> storage key, of the upload-URL response
    upIdx,              \* number of images upload_all_images has visited
    s3_keys_mapping,    \* filename -> storage key, of the uploaded images
    failed_uploads,     \* local failed_uploads of upload_all_images
    submitted,          \* payloads POSTed to the extract endpoint, in order
    job_id,             \* local job_id
    attempt,            \* local attempt of poll_job_status
    lastResponse,       \* the last answer of the job-status endpoint
    pollOutcome,        \* how poll_job_status ended
    final_summary,      \* local final_summary
    db,                 \* the row of table "cases" with id = case_id
    sinkCalls,          \* calls made on SupabaseService, in order
    response,           \* the value process_case returns
    uncaught,           \* class of an exception that left the handler, or NoneStr
    cleanupReturn,      \* what cleanup_request returned, NoneStr when not called
    nUrlReq,            \* POSTs to the get-upload-urls endpoint
    nPut,               \* PUTs to pre-signed URLs
    nStatus,            \* GETs to the job-status endpoint
    grouping,           \* what a call of build_s3_keys_by_document returned
    urlReply,           \* how the upload-URL request was answered, NoneStr before it
    reqs,               \* the requests of one server process, when several are in flight
    running,            \* the requests whose coroutine the event loop is running: one or none
    success             \* local success: what update_case_summary returned

vars == <<pc, files, case_id, additional_data, request_id, workDir, rawDir,
          saveIdx, saved_files, document_files, text_files, convIdx, imagesDir,
          image_paths, upload_urls, s3_keys, upIdx, s3_keys_mapping,
          failed_uploads, submitted, job_id, attempt, lastResponse, pollOutcome,
          final_summary, db, sinkCalls, response, uncaught, cleanupReturn,
          nUrlReq, nPut, nStatus, grouping, urlReply, reqs, running,
          success>>

-----------------------------------------------------------------------------
(* Bounds of the model and constants of the program *)

MaxFiles == 1
MaxPages == 1
\* Files given to separate_files in ClassifierSpec
MaxRaw == 3
\* Images and documents given to build_s3_keys_by_document in GrouperSpec
MaxImages == 5
MaxDocs == 3
\* Files per batch, and pages of the long document, of SubmissionSpec
BatchSize == 3
ManyPages == 10

\* AIPipeline.MAX_POLL_ATTEMPTS
MAX_POLL_ATTEMPTS == 120

NoneStr == "None"
NoText  == <<"<None>">>

CaseIds == {"case-1", "case-2"}
Summaries == {"S1", "S2"}

\* A text is a sequence of tokens; NoText is Python's None, <<>> the empty
\* string.  Truthy is Python's truth value of an Optional[str].
Truthy(text) == text # NoText /\ text # <<>>

-----------------------------------------------------------------------------
(* Names and uploaded files *)

\* A name is a sequence of characters.  Python compares two str values, and
\* two paths of one directory, character by character, by code point.
Ascii ==
    ("." :> 46) @@ ("0" :> 48) @@ ("1" :> 49) @@ ("2" :> 50) @@
    ("3" :> 51) @@ ("4" :> 52) @@ ("5" :> 53) @@ ("6" :> 54) @@
    ("7" :> 55) @@ ("8" :> 56) @@ ("9" :> 57) @@ ("D" :> 68) @@
    ("F" :> 70) @@ ("P" :> 80) @@ ("T" :> 84) @@ ("X" :> 88) @@
    ("_" :> 95) @@ ("a" :> 97) @@ ("b" :> 98) @@ ("c" :> 99) @@
    ("d" :> 100) @@ ("e" :> 101) @@ ("f" :> 102) @@ ("g" :> 103) @@
    ("h" :> 104) @@ ("i" :> 105) @@ ("j" :> 106) @@ ("k" :> 107) @@
    ("l" :> 108) @@ ("m" :> 109) @@ ("n" :> 110) @@ ("o" :> 111) @@
    ("p" :> 112) @@ ("q" :> 113) @@ ("r" :> 114) @@ ("s" :> 115) @@
    ("t" :> 116) @@ ("u" :> 117) @@ ("v" :> 118) @@ ("w" :> 119) @@
    ("x" :> 120) @@ ("y" :> 121) @@ ("z" :> 122)

\* str.lower() of one character
LowerChar(c) ==
    IF c = "D" THEN "d" ELSE IF c = "F" THEN "f" ELSE IF c = "P" THEN "p"
    ELSE IF c = "T" THEN "t" ELSE IF c = "X" THEN "x" ELSE c

\* str.lower()
Lower(s) == [i \in 1..Len(s) |-> LowerChar(s[i])]

\* s < t on str
RECURSIVE LexLess(_, _)
LexLess(s, t) ==
    IF t = <<>> THEN FALSE
    ELSE IF s = <<>> THEN TRUE
    ELSE IF s[1] # t[1] THEN Ascii[s[1]] < Ascii[t[1]]
    ELSE LexLess(Tail(s), Tail(t))

Digit(d) == <<"0", "1", "2", "3", "4", "5", "6", "7", "8", "9">>[d + 1]

\* str(n) of a natural number
RECURSIVE Str(_)
Str(n) == IF n < 10 THEN <<Digit(n)>> ELSE Str(n \div 10) \o <<Digit(n % 10)>>

\* sorted(S) of a set of names
RECURSIVE SortedNames(_)
SortedNames(S) ==
    IF S = {} THEN <<>>
    ELSE LET m == CHOOSE x \in S : \A y \in S \ {x} : LexLess(x, y)
         IN <<m>> \o SortedNames(S \ {m})

\* An uploaded file: its filename (stem and suffix, Path.stem and Path.suffix)
\* and its content: pages is the number of page images the converter makes
\* of it (0: it cannot be opened), text its bytes when it is a note, as a
\* sequence of words and line terminators.
File(stem, ext, pages, text) == [stem |-> stem, ext |-> ext, pages |-> pages, text |-> text]

FileName(f) == f.stem \o f.ext

Unnamed == File(<<>>, <<>>, 0, <<>>)

\* The uploads of a request are drawn from: a part without a filename, the PDF
\* a.pdf of 0..MaxPages pages, the image b.png and the note n.txt.
FileChoices ==
    {Unnamed}
    \cup {File(<<"a">>, <<".", "p", "d", "f">>, n, <<>>) : n \in 0..MaxPages}
    \cup {File(<<"b">>, <<".", "p", "n", "g">>, 1, <<>>)}
    \cup {File(<<"n">>, <<".", "t", "x", "t">>, 0, <<"note">>)}

FileLists == UNION {[1..n -> FileChoices] : n \in 0..MaxFiles}

\* The file of a directory listing that has the given name
FileNamed(dir, name) == CHOOSE f \in dir : FileName(f) = name

SameName(f, g) == FileName(f) = FileName(g)

\* TempStorage.save_uploaded_file: open(raw/<filename>, "wb") replaces a file
\* of the same name.
save_uploaded_file(dir, f) == {g \in dir : ~SameName(f, g)} \cup {f}

\* TempStorage.get_raw_files: sorted(raw_dir.glob("*"))
get_raw_files(dir) ==
    LET names == SortedNames({FileName(f) : f \in dir})
    IN  [i \in 1..Len(names) |-> FileNamed(dir, names[i])]

\* separate_files, lines 40-41
document_extensions ==
    {<<".", "p", "d", "f">>, <<".", "p", "n", "g">>, <<".", "j", "p", "g">>, <<".", "j", "p", "e", "g">>, <<".", "w", "e", "b", "p">>, <<".", "b", "m", "p">>,
     <<".", "g", "i", "f">>, <<".", "t", "i", "f", "f">>, <<".", "x", "p", "s">>, <<".", "e", "p", "u", "b">>}
txt_extensions == {<<".", "t", "x", "t">>}

\* Variant: without .lower()
IsTxtCaseSensitive(f) == f.ext \in txt_extensions

\* Lines 47-48: ext = file_path.suffix.lower(); ext in txt_extensions
IsTxt(f) == Lower(f.ext) \in txt_extensions

\* separate_files: (documents, text_files).  The elif and else branches of
\* lines 50-54 both append to documents.
separate_files(raw_files) ==
    <<SelectSeq(raw_files, LAMBDA f : ~IsTxt(f)), SelectSeq(raw_files, IsTxt)>>

-----------------------------------------------------------------------------
(* Responses and exceptions *)

NoResponse == [status |-> NoneStr, message |-> <<>>, summary_markdown |-> NoneStr]

\* Lines 425-428 (and 376-379): {"status": "error", "message": ...}
ErrorResponse(msg) == [status |-> "error", message |-> msg, summary_markdown |-> NoneStr]

\* Lines 408-411: {"status": "processing_started", "summary_markdown": None}
StartedResponse ==
    [status |-> "processing_started", message |-> <<>>, summary_markdown |-> NoneStr]

\* The exception classes the handler's code raises; each derives from Exception.
ExceptionClasses ==
    {"Exception", "HTTPException", "OSError", "AttributeError", "TimeoutError"}

\* Variant: "except HTTPException" in place of "except Exception"
CaughtOnlyHTTPException(cls) == cls = "HTTPException"

\* Line 423, "except Exception as e": the classes that clause catches.
Caught(cls) == cls \in ExceptionClasses

\* An exception of class cls with text msg raised inside the try block of
\* process_case: the except clause (lines 423-428) turns it into the error
\* response, or it leaves the handler; the finally block runs in both cases.
Raise(cls, msg) ==
    /\ pc' = "finally"
    /\ IF Caught(cls)
       THEN /\ response' = ErrorResponse(msg)
            /\ UNCHANGED uncaught
       ELSE /\ uncaught' = cls
            /\ UNCHANGED response

\* The handler goes on to its next step.
Goto(next) ==
    /\ pc' = next
    /\ UNCHANGED <<response, uncaught>>

\* Variant: upload_all_images (line 250) left out between get_upload_urls
\* and call_extract_api
StageAfterWithoutUpload(stage) ==
    CASE stage = "entry"   -> "save"
      [] stage = "save"    -> "convert"
      [] stage = "convert" -> "geturls"
      [] stage = "geturls" -> "submit"
      [] stage = "upload"  -> "submit"
      [] stage = "submit"  -> "poll"
      [] stage = "poll"    -> "sink"

\* The order of the steps in the body of process_case: the step entered when
\* a step has completed without raising.
StageAfter(stage) ==
    CASE stage = "entry"   -> "save"
      [] stage = "save"    -> "convert"
      [] stage = "convert" -> "geturls"
      [] stage = "geturls" -> "upload"
      [] stage = "upload"  -> "submit"
      [] stage = "submit"  -> "poll"
      [] stage = "poll"    -> "sink"

NoStatusResponse ==
    [http |-> "none", status |-> NoneStr, result |-> "absent", summary |-> NoneStr, error |-> NoneStr]

NoOutcome == [kind |-> "none", text |-> NoneStr]

\* The locals of process_case, the services and the file system before the
\* handler has done anything.
Untouched ==
    /\ request_id = NoneStr
    /\ workDir = FALSE
    /\ rawDir = {}
    /\ saveIdx = 0
    /\ saved_files = <<>>
    /\ text_files = <<>>
    /\ convIdx = 0
    /\ imagesDir = {}
    /\ upload_urls = {}
    /\ s3_keys = <<>>
    /\ upIdx = 0
    /\ s3_keys_mapping = <<>>
    /\ failed_uploads = <<>>
    /\ submitted = <<>>
    /\ job_id = NoneStr
    /\ attempt = 0
    /\ lastResponse = NoStatusResponse
    /\ pollOutcome = NoOutcome
    /\ final_summary = NoneStr
    /\ db = [summary |-> NoneStr, processing |-> TRUE]
    /\ sinkCalls = <<>>
    /\ response = NoResponse
    /\ uncaught = NoneStr
    /\ cleanupReturn = NoneStr
    /\ nUrlReq = 0
    /\ nPut = 0
    /\ nStatus = 0
    /\ grouping = NoneStr
    /\ urlReply = NoneStr
    /\ success = NoneStr

\* The server handles this one request and no other.
NoOtherRequests ==
    /\ reqs = <<>>
    /\ running = {}

\* A request arrives: its uploads are one of the given batches, its form
\* notes one of the given texts.
Arrival(batches, notes) ==
    /\ pc = "entry"
    /\ files \in batches
    /\ case_id \in CaseIds
    /\ additional_data \in notes
    /\ document_files = <<>>
    /\ image_paths = <<>>
    /\ Untouched
    /\ NoOtherRequests

Init == Arrival(FileLists, {NoText, <<"F">>})

-----------------------------------------------------------------------------
(* Saving and classifying (routes.py 151-197) *)

\* Lines 151-162: the empty-upload check and create_request_directory.
Entry ==
    /\ pc = "entry"
    /\ IF files = <<>>
       THEN /\ Raise("HTTPException", <<"No files uploaded">>)
            /\ UNCHANGED <<request_id, workDir>>
       ELSE /\ request_id' = "r1"
            /\ workDir' = TRUE
            /\ Goto(StageAfter("entry"))
    /\ UNCHANGED <<files, case_id, additional_data, rawDir, saveIdx, saved_files,
                   document_files, text_files, convIdx, imagesDir, image_paths,
                   upload_urls, s3_keys, upIdx, s3_keys_mapping, failed_uploads,
                   submitted, job_id, attempt, lastResponse, pollOutcome, final_summary,
                   db, sinkCalls, cleanupReturn, nUrlReq, nPut, nStatus, grouping,
                   urlReply, reqs, running, success>>

\* Lines 166-173: one iteration of the save loop.  A file without a filename is
\* skipped; the write of a named file succeeds or raises.
SaveFile ==
    /\ pc = "save"
    /\ saveIdx < Len(files)
    /\ LET f == files[saveIdx + 1] IN
       IF FileName(f) = <<>>
       THEN /\ saveIdx' = saveIdx + 1
            /\ Goto("save")
            /\ UNCHANGED <<rawDir, saved_files>>
       ELSE \/ /\ rawDir' = save_uploaded_file(rawDir, f)
               /\ saved_files' = Append(saved_files, f)
               /\ saveIdx' = saveIdx + 1
               /\ Goto("save")
            \/ /\ Raise("OSError", <<"cannot write ">> \o FileName(f))
               /\ UNCHANGED <<rawDir, saved_files, saveIdx>>
    /\ UNCHANGED <<files, case_id, additional_data, request_id, workDir, document_files,
                   text_files, convIdx, imagesDir, image_paths, upload_urls, s3_keys,
                   upIdx, s3_keys_mapping, failed_uploads, submitted, job_id, attempt,
                   lastResponse, pollOutcome, final_summary, db, sinkCalls,
                   cleanupReturn, nUrlReq, nPut, nStatus, grouping, urlReply, reqs,
                   running, success>>

\* Lines 175-197: the saved-files check, get_raw_files and separate_files.
Classify ==
    /\ pc = "save"
    /\ saveIdx = Len(files)
    /\ LET raw_files == get_raw_files(rawDir)
           parts == separate_files(raw_files)
       IN  IF saved_files = <<>>
           THEN /\ Raise("Exception", <<"No valid files were saved">>)
                /\ UNCHANGED <<document_files, text_files>>
           ELSE IF parts[1] = <<>>
           THEN /\ Raise("Exception", <<"No document files found (PDF or image files required)">>)
                /\ UNCHANGED <<document_files, text_files>>
           ELSE /\ document_files' = parts[1]
                /\ text_files' = parts[2]
                /\ Goto(StageAfter("save"))
    /\ UNCHANGED <<files, case_id, additional_data, request_id, workDir, rawDir,
                   saveIdx, saved_files, convIdx, imagesDir, image_paths, upload_urls,
                   s3_keys, upIdx, s3_keys_mapping, failed_uploads, submitted, job_id,
                   attempt, lastResponse, pollOutcome, final_summary, db, sinkCalls,
                   cleanupReturn, nUrlReq, nPut, nStatus, grouping, urlReply, reqs,
                   running, success>>

-----------------------------------------------------------------------------
(* Conversion (converter/converter.py) and the rename to i1.jpeg..iN.jpeg *)

\* An image file of IMAGES_OUTPUT_DIR: its name, and as its content the page
\* pg of the doc-th converted document.
Image(name, doc, pg) == [name |-> name, doc |-> doc, pg |-> pg]

\* f"{input_path.stem}.jpeg" (convert_image_to_jpeg)
JpegName(stem) == stem \o <<".", "j", "p", "e", "g">>

\* f"{input_path.stem}_page_{page_num + 1}.jpeg" (convert_pdf_to_jpeg,
\* convert_document_to_jpeg)
PageName(stem, n) == stem \o <<"_", "p", "a", "g", "e", "_">> \o Str(n) \o <<".", "j", "p", "e", "g">>

\* f"i{idx}.jpeg"
IName(k) == <<"i">> \o Str(k) \o <<".", "j", "p", "e", "g">>

\* Writing image files replaces the files of the same names.
WriteImages(dir, new) ==
    {x \in dir : \A y \in new : x.name # y.name} \cup new

\* universal_to_jpeg, lines 136-144
image_formats ==
    {<<".", "p", "n", "g">>, <<".", "j", "p", "g">>, <<".", "j", "p", "e", "g">>, <<".", "b", "m", "p">>, <<".", "g", "i", "f">>, <<".", "t", "i", "f", "f">>, <<".", "t", "i", "f">>,
     <<".", "w", "e", "b", "p">>, <<".", "i", "c", "o">>, <<".", "p", "p", "m">>, <<".", "p", "g", "m">>, <<".", "p", "b", "m">>, <<".", "p", "n", "m">>, <<".", "d", "i", "b">>}
document_formats ==
    {<<".", "p", "d", "f">>, <<".", "x", "p", "s">>, <<".", "e", "p", "u", "b">>, <<".", "m", "o", "b", "i">>, <<".", "f", "b", "2">>, <<".", "c", "b", "z">>, <<".", "s", "v", "g">>, <<".", "t", "x", "t">>}
office_formats ==
    {<<".", "d", "o", "c", "x">>, <<".", "d", "o", "c">>, <<".", "p", "p", "t", "x">>, <<".", "p", "p", "t">>, <<".", "x", "l", "s", "x">>, <<".", "x", "l", "s">>}

\* universal_to_jpeg on the d-th document.  A file with an image suffix gives
\* <stem>.jpeg (convert_image_to_jpeg); a PDF or another document gives
\* <stem>_page_<n>.jpeg for each page (convert_pdf_to_jpeg,
\* convert_document_to_jpeg); a file that cannot be opened gives nothing.  A
\* file of an unknown suffix is tried as an image, then as a document: its
\* content opens as an image when it has one page.
universal_to_jpeg(dir, f, d) ==
    LET ext == Lower(f.ext)
        paged == {Image(PageName(f.stem, p), d, p) : p \in 1..f.pages}
        single == {Image(JpegName(f.stem), d, 1)}
    IN  IF ext \in image_formats
        THEN IF f.pages >= 1 THEN WriteImages(dir, single) ELSE dir
        ELSE IF ext \in document_formats \cup office_formats
        THEN WriteImages(dir, paged)
        ELSE IF f.pages = 1 THEN WriteImages(dir, single) ELSE WriteImages(dir, paged)

\* Lines 206-209: one iteration of the conversion loop.
Convert ==
    /\ pc = "convert"
    /\ convIdx < Len(document_files)
    /\ imagesDir' = universal_to_jpeg(imagesDir, document_files[convIdx + 1], convIdx + 1)
    /\ convIdx' = convIdx + 1
    /\ UNCHANGED <<pc, files, case_id, additional_data, request_id, workDir, rawDir,
                   saveIdx, saved_files, document_files, text_files, image_paths,
                   upload_urls, s3_keys, upIdx, s3_keys_mapping, failed_uploads,
                   submitted, job_id, attempt, lastResponse, pollOutcome, final_summary,
                   db, sinkCalls, response, uncaught, cleanupReturn, nUrlReq, nPut,
                   nStatus, grouping, urlReply, reqs, running, success>>

\* sorted(IMAGES_OUTPUT_DIR.glob("*.jpeg")): the names, in order
SortedImages(dir) == SortedNames({x.name : x \in dir})

\* Path.rename of the file named src to i<k>.jpeg: the target is replaced.
RenameOne(dir, src, k) ==
    LET found == {x \in dir : x.name = src}
    IN  IF src = IName(k) \/ found = {} THEN dir
        ELSE {x \in dir : x.name # src /\ x.name # IName(k)}
             \cup {Image(IName(k), x.doc, x.pg) : x \in found}

\* Lines 228-233: the rename loop over the sorted listing, from position k on.
RECURSIVE RenameAll(_, _, _)
RenameAll(dir, listing, k) ==
    IF k > Len(listing) THEN dir
    ELSE RenameAll(RenameOne(dir, listing[k], k), listing, k + 1)

\* Variant: the check of line 214 dropped
NoImagesUnchecked(listing) == FALSE

\* Line 214: "if not image_paths"
NoImages(listing) == listing = <<>>

\* Lines 211-235: the listing of the output directory and the rename.
ListAndRename ==
    /\ pc = "convert"
    /\ convIdx = Len(document_files)
    /\ LET listing == SortedImages(imagesDir) IN
       IF NoImages(listing)
       THEN /\ Raise("Exception", <<"No JPEG images were generated from documents">>)
            /\ UNCHANGED <<imagesDir, image_paths>>
       ELSE /\ imagesDir' = RenameAll(imagesDir, listing, 1)
            /\ image_paths' = [k \in 1..Len(listing) |-> IName(k)]
            /\ Goto(StageAfter("convert"))
    /\ UNCHANGED <<files, case_id, additional_data, request_id, workDir, rawDir,
                   saveIdx, saved_files, document_files, text_files, convIdx,
                   upload_urls, s3_keys, upIdx, s3_keys_mapping, failed_uploads,
                   submitted, job_id, attempt, lastResponse, pollOutcome, final_summary,
                   db, sinkCalls, cleanupReturn, nUrlReq, nPut, nStatus, grouping,
                   urlReply, reqs, running, success>>

-----------------------------------------------------------------------------
(* Upload (app/services/uploader.py) *)

\* The storage key the upload-URL service assigns to a filename
KeyOf(name) == <<"key:">> \o name

\* What the service's response holds for each requested filename: an item with
\* URL and key ("ok"), an item with a URL and no s3_key ("nokey"), or no usable
\* item ("missing").  The responses drawn: every filename "ok", or the first or
\* the last filename "nokey" or "missing".
UrlResponses(n) ==
    {[k \in 1..n |-> "ok"]}
    \cup {[k \in 1..n |-> IF k = j THEN t ELSE "ok"] : j \in {1, n}, t \in {"nokey", "missing"}}

\* How the POST of line 45 can end: a response of status 2xx, the service
\* unreachable, no answer within the timeout, or another status.
UrlReplies == {"ok", "unreachable", "timeout", "bad_status"}

\* Variant: without response.raise_for_status()
UrlRequestFailsWithoutStatusCheck(reply) == reply \in {"unreachable", "timeout"}

\* Lines 45-46 and 89: requests.post raises, or raise_for_status does, a
\* RequestException.
UrlRequestFails(reply) == reply # "ok"

\* S3Uploader.get_upload_urls (lines 20-91) as called from routes.py 238-243.
GetUploadUrls ==
    /\ pc = "geturls"
    /\ nUrlReq' = nUrlReq + 1
    /\ \E reply \in UrlReplies :
         /\ urlReply' = reply
         /\ IF UrlRequestFails(reply)
            THEN /\ Raise("Exception", <<"Failed to get upload URLs: ", reply>>)
                 /\ UNCHANGED <<upload_urls, s3_keys>>
            ELSE \E r \in UrlResponses(Len(image_paths)) :
                   LET named == {image_paths[k] : k \in {j \in DOMAIN r : r[j] # "missing"}}
                       keyed == {image_paths[k] : k \in {j \in DOMAIN r : r[j] = "ok"}}
                   IN  /\ upload_urls' = named
                       /\ s3_keys' = [name \in named |->
                                         IF name \in keyed THEN KeyOf(name) ELSE NoneStr]
                       /\ Goto(StageAfter("geturls"))
    /\ UNCHANGED <<files, case_id, additional_data, request_id, workDir, rawDir,
                   saveIdx, saved_files, document_files, text_files, convIdx, imagesDir,
                   image_paths, upIdx, s3_keys_mapping, failed_uploads, submitted,
                   job_id, attempt, lastResponse, pollOutcome, final_summary, db,
                   sinkCalls, cleanupReturn, nPut, nStatus, grouping, reqs, running,
                   success>>

\* dict[key] = value
DictSet(d, key, value) ==
    [x \in DOMAIN d \cup {key} |-> IF x = key THEN value ELSE d[x]]

\* Whether the directory has a file of that name
FileExists(dir, name) == \E x \in dir : x.name = name

\* Variant: the image is tried again when its upload did not succeed
AfterImageRetrying(i, uploaded) == IF uploaded THEN i + 1 ELSE i

\* Line 150, "for image_path in image_paths": the loop goes on to the next
\* image whether or not the upload of this one succeeded (lines 156, 167).
AfterImage(i, uploaded) == i + 1

\* upload_all_images, lines 150-167: one iteration of its loop, with
\* upload_image_to_s3 (lines 94-129), which returns False on every failure.
UploadOne ==
    /\ pc = "upload"
    /\ upIdx < Len(image_paths)
    /\ LET filename == image_paths[upIdx + 1] IN
       IF filename \notin upload_urls
       THEN /\ failed_uploads' = Append(failed_uploads, filename)
            /\ upIdx' = AfterImage(upIdx, FALSE)
            /\ UNCHANGED <<s3_keys_mapping, nPut>>
       ELSE IF ~FileExists(imagesDir, filename)
       THEN /\ failed_uploads' = Append(failed_uploads, filename)
            /\ upIdx' = AfterImage(upIdx, FALSE)
            /\ UNCHANGED <<s3_keys_mapping, nPut>>
       ELSE /\ nPut' = nPut + 1
            /\ \/ /\ s3_keys_mapping' = DictSet(s3_keys_mapping, filename, s3_keys[filename])
                  /\ upIdx' = AfterImage(upIdx, TRUE)
                  /\ UNCHANGED failed_uploads
               \/ /\ failed_uploads' = Append(failed_uploads, filename)
                  /\ upIdx' = AfterImage(upIdx, FALSE)
                  /\ UNCHANGED s3_keys_mapping
    /\ UNCHANGED <<pc, files, case_id, additional_data, request_id, workDir, rawDir,
                   saveIdx, saved_files, document_files, text_files, convIdx, imagesDir,
                   image_paths, upload_urls, s3_keys, submitted, job_id, attempt,
                   lastResponse, pollOutcome, final_summary, db, sinkCalls, response,
                   uncaught, cleanupReturn, nUrlReq, nStatus, grouping, urlReply, reqs,
                   running, success>>

\* Variant: the check of line 169 dropped
AnyFailedUploadIgnored(failed) == FALSE

\* upload_all_images, line 169: "if failed_uploads"
AnyFailedUpload(failed) == failed # <<>>

\* upload_all_images, lines 169-172, and routes.py 250-256.
UploadFinish ==
    /\ pc = "upload"
    /\ upIdx = Len(image_paths)
    /\ IF AnyFailedUpload(failed_uploads)
       THEN Raise("Exception", <<"Failed to upload images: ">> \o failed_uploads)
       ELSE Goto(StageAfter("upload"))
    /\ UNCHANGED <<files, case_id, additional_data, request_id, workDir, rawDir,
                   saveIdx, saved_files, document_files, text_files, convIdx, imagesDir,
                   image_paths, upload_urls, s3_keys, upIdx, s3_keys_mapping,
                   failed_uploads, submitted, job_id, attempt, lastResponse,
                   pollOutcome, final_summary, db, sinkCalls, cleanupReturn, nUrlReq,
                   nPut, nStatus, grouping, urlReply, reqs, running, success>>

-----------------------------------------------------------------------------
(* Payload assembly and submission (routes.py 263-352, ai_pipeline.py 32-86) *)

\* sorted(s3_keys_mapping.keys())
SortedFilenames(S) == SortedNames(S)

\* Lines 297-300: clinical_data = {"1": [...]}; group d of the sequence is the
\* value under the key str(d).
BuildClinicalData(mapping) ==
    LET sorted_filenames == SortedFilenames(DOMAIN mapping)
    IN  <<[i \in 1..Len(sorted_filenames) |-> mapping[sorted_filenames[i]]]>>

\* "\n\n".join(text_contents)
RECURSIVE JoinBlank(_)
JoinBlank(contents) ==
    IF Len(contents) = 0 THEN <<>>
    ELSE IF Len(contents) = 1 THEN contents[1]
    ELSE contents[1] \o <<"\n\n">> \o JoinBlank(Tail(contents))

\* open(txt_file, "r", encoding="utf-8").read(): text mode with universal
\* newlines gives every line terminator as "\n".
TextOf(f) ==
    [i \in 1..Len(f.text) |-> IF f.text[i] \in {"\r\n", "\r"} THEN "\n" ELSE f.text[i]]

\* Lines 317-348: final_additional_data.  readable holds the positions of the
\* text files that could be read (a failed read is logged and skipped).
FinalAdditionalData(form, txts, readable) ==
    LET first == IF Truthy(form) THEN form ELSE NoText
        idx == SelectSeq([i \in 1..Len(txts) |-> i], LAMBDA i : i \in readable)
        text_contents == [i \in 1..Len(idx) |-> TextOf(txts[idx[i]])]
        text_data == JoinBlank(text_contents)
    IN  IF txts # <<>> /\ text_contents # <<>>
        THEN IF Truthy(first) THEN first \o <<"\n\n">> \o text_data ELSE text_data
        ELSE first

\* call_extract_api, lines 49-52: additional_data is added only when truthy.
Payload(clinical_data, final_additional_data) ==
    [clinical_data |-> clinical_data,
     additional_data |-> IF Truthy(final_additional_data)
                         THEN final_additional_data ELSE NoText]

\* What the POST of call_extract_api can give: a transport failure or a bad
\* status (http = "error"), or a JSON body whose job_id is absent or null
\* (NoneStr), empty, or an identifier.
ExtractResponses ==
    {[http |-> "error", job_id |-> NoneStr]}
    \cup {[http |-> "ok", job_id |-> j] : j \in {NoneStr, "", "job-1"}}

\* Variant: "if job_id is None"
NoJobIdOnlyNone(j) == j = NoneStr

\* ai_pipeline.py line 78: "if not job_id"
NoJobId(j) == j = NoneStr \/ j = ""

\* Lines 263-352: one POST to the extract endpoint; the transport fails, the
\* response carries no job_id, or it carries one.
SubmitExtract ==
    /\ pc = "submit"
    /\ \E readable \in SUBSET (1..Len(text_files)) :
          submitted' = Append(submitted,
                              Payload(BuildClinicalData(s3_keys_mapping),
                                      FinalAdditionalData(additional_data, text_files, readable)))
    /\ \E r \in ExtractResponses :
          IF r.http = "error"
          THEN /\ Raise("Exception", <<"Failed to call extract API: ", "RequestException">>)
               /\ UNCHANGED job_id
          ELSE IF NoJobId(r.job_id)
          THEN /\ Raise("Exception", <<"No job_id returned from extract API">>)
               /\ UNCHANGED job_id
          ELSE /\ job_id' = r.job_id
               /\ Goto(StageAfter("submit"))
    /\ UNCHANGED <<files, case_id, additional_data, request_id, workDir, rawDir,
                   saveIdx, saved_files, document_files, text_files, convIdx, imagesDir,
                   image_paths, upload_urls, s3_keys, upIdx, s3_keys_mapping,
                   failed_uploads, attempt, lastResponse, pollOutcome, final_summary,
                   db, sinkCalls, cleanupReturn, nUrlReq, nPut, nStatus, grouping,
                   urlReply, reqs, running, success>>

-----------------------------------------------------------------------------
(* Polling (ai_pipeline.py 89-156) *)

\* What one GET of the job-status endpoint can give: a transport failure
\* (http = "error") or a JSON body with a status, for "completed" possibly a
\* result object with a final_summary, for "failed" possibly an error text.
StatusResponses ==
    {[http |-> "error", status |-> NoneStr, result |-> "absent", summary |-> NoneStr, error |-> NoneStr]}
    \cup {[http |-> "ok", status |-> st, result |-> "absent", summary |-> NoneStr, error |-> NoneStr] :
             st \in {"processing", "queued", "completed"}}
    \cup {[http |-> "ok", status |-> "completed", result |-> "null", summary |-> NoneStr, error |-> NoneStr]}
    \cup {[http |-> "ok", status |-> "completed", result |-> "object", summary |-> t, error |-> NoneStr] :
             t \in {NoneStr, ""} \cup Summaries}
    \cup {[http |-> "ok", status |-> "failed", result |-> "absent", summary |-> NoneStr, error |-> e] :
             e \in {NoneStr, "E1"}}

Outcome(kind, text) == [kind |-> kind, text |-> text]

\* Variant: "while attempt <= MAX_POLL_ATTEMPTS"
PollLoopConditionOffByOne(a) == a <= MAX_POLL_ATTEMPTS

\* Line 106: the loop condition
PollLoopCondition(a) == a < MAX_POLL_ATTEMPTS

\* Variant: result.get("summary"): a key the response does not have
GetFinalSummaryWrongKey(r) == NoneStr

\* Lines 133-134: result = data.get("result", {}); result.get("final_summary")
GetFinalSummary(r) == IF r.result = "object" THEN r.summary ELSE NoneStr

\* Variant: "if final_summary is None"
NotFinalSummaryOnlyNone(s) == s = NoneStr

\* Line 136: not final_summary
NotFinalSummary(s) == s = NoneStr \/ s = ""

\* Variant: status == "error": the wrong literal
IsFailedStatusWrongLiteral(st) == st = "error"

\* Line 142: status == "failed"
IsFailedStatus(st) == st = "failed"

\* Line 143: data.get("error", "Unknown error")
ErrorText(r) == IF r.error = NoneStr THEN "Unknown error" ELSE r.error

\* Variant: without "attempt += 1"
AttemptAfterWithoutIncrement(a) == a

\* Line 148: attempt += 1
AttemptAfter(a) == a + 1

\* Lines 106-152: one iteration of the polling loop: one status request, then
\* a return, a raise, or attempt += 1.
PollAttempt ==
    /\ pc = "poll"
    /\ PollLoopCondition(attempt)
    /\ nStatus' = nStatus + 1
    /\ \E r \in StatusResponses :
          /\ lastResponse' = r
          /\ IF r.http = "error"
             THEN /\ pollOutcome' = Outcome("transport", "RequestException")
                  /\ Raise("Exception", <<"Failed to poll job status: ", "RequestException">>)
                  /\ UNCHANGED <<attempt, final_summary>>
             ELSE IF r.status = "completed" /\ r.result = "null"
             THEN /\ pollOutcome' = Outcome("missing_result", "AttributeError")
                  /\ Raise("AttributeError", <<"'NoneType' object has no attribute 'get'">>)
                  /\ UNCHANGED <<attempt, final_summary>>
             ELSE IF r.status = "completed" /\ NotFinalSummary(GetFinalSummary(r))
             THEN /\ pollOutcome' = Outcome("missing_result", "Exception")
                  /\ Raise("Exception", <<"No final_summary in completed result">>)
                  /\ UNCHANGED <<attempt, final_summary>>
             ELSE IF r.status = "completed"
             THEN /\ pollOutcome' = Outcome("result", GetFinalSummary(r))
                  /\ final_summary' = GetFinalSummary(r)
                  /\ Goto(StageAfter("poll"))
                  /\ UNCHANGED attempt
             ELSE IF IsFailedStatus(r.status)
             THEN /\ pollOutcome' = Outcome("failed", ErrorText(r))
                  /\ Raise("Exception", <<"Job failed: ", ErrorText(r)>>)
                  /\ UNCHANGED <<attempt, final_summary>>
             ELSE /\ attempt' = AttemptAfter(attempt)
                  /\ Goto("poll")
                  /\ UNCHANGED <<pollOutcome, final_summary>>
    /\ UNCHANGED <<files, case_id, additional_data, request_id, workDir, rawDir,
                   saveIdx, saved_files, document_files, text_files, convIdx, imagesDir,
                   image_paths, upload_urls, s3_keys, upIdx, s3_keys_mapping,
                   failed_uploads, submitted, job_id, db, sinkCalls, cleanupReturn,
                   nUrlReq, nPut, grouping, urlReply, reqs, running, success>>

\* Lines 154-156: the loop condition fails and TimeoutError is raised; the
\* clause of routes.py 362 takes it.
PollTimeout ==
    /\ pc = "poll"
    /\ ~PollLoopCondition(attempt)
    /\ pollOutcome' = Outcome("timeout", "TimeoutError")
    /\ pc' = "timeout_handler"
    /\ UNCHANGED <<files, case_id, additional_data, request_id, workDir, rawDir,
                   saveIdx, saved_files, document_files, text_files, convIdx, imagesDir,
                   image_paths, upload_urls, s3_keys, upIdx, s3_keys_mapping,
                   failed_uploads, submitted, job_id, attempt, lastResponse,
                   final_summary, db, sinkCalls, response, uncaught, cleanupReturn,
                   nUrlReq, nPut, nStatus, grouping, urlReply, reqs, running, success>>

-----------------------------------------------------------------------------
(* The Result Sink (supabase_service.py) and the end of the handler *)

\* The methods class SupabaseService defines (lines 17-66).
SupabaseServiceMethods == {"get_client", "update_case_summary"}

SinkCall(op, id, text) == [op |-> op, case_id |-> id, text |-> text]

\* Lines 376-379
TimeoutMessage == <<"Case creation failed - AI processing timed out after 120 attempts">>

\* Lines 362-379: the except TimeoutError clause.  It calls
\* SupabaseService.update_case_failed(case_id); the lookup of an attribute the
\* class does not define raises AttributeError, inside the outer try block.
TimeoutHandler ==
    /\ pc = "timeout_handler"
    /\ IF "update_case_failed" \in SupabaseServiceMethods
       THEN /\ sinkCalls' = Append(sinkCalls, SinkCall("update_case_failed", case_id, NoneStr))
            /\ response' = ErrorResponse(TimeoutMessage)
            /\ pc' = "finally"
            /\ UNCHANGED uncaught
       ELSE /\ Raise("AttributeError",
                     <<"type object 'SupabaseService' has no attribute 'update_case_failed'">>)
            /\ UNCHANGED sinkCalls
    /\ UNCHANGED <<files, case_id, additional_data, request_id, workDir, rawDir,
                   saveIdx, saved_files, document_files, text_files, convIdx, imagesDir,
                   image_paths, upload_urls, s3_keys, upIdx, s3_keys_mapping,
                   failed_uploads, submitted, job_id, attempt, lastResponse,
                   pollOutcome, final_summary, db, cleanupReturn, nUrlReq, nPut,
                   nStatus, grouping, urlReply, reqs, running, success>>

\* What the try block of update_case_summary (lines 51-62) can do: the update
\* is executed, get_client raises ValueError for a missing configuration (line
\* 30), or the database client raises its APIError.
SinkOutcomes == {"updated", "ValueError", "APIError"}

\* Variant: "except ValueError" in place of "except Exception"
SinkCaughtOnlyValueError(cls) == cls = "ValueError"

\* Line 64, "except Exception as e": the classes that clause catches.
SinkCaught(cls) == cls \in {"ValueError", "APIError"} \cup ExceptionClasses

\* SupabaseService.update_case_summary (lines 39-66): the update sets summary
\* and processing = False and True is returned; any exception (no
\* configuration, database error) is caught and False is returned.
update_case_summary(row, summary, ok) ==
    IF ok THEN [summary |-> summary, processing |-> FALSE] ELSE row

\* Variant: update_case_summary(request_id, final_summary)
SummaryCallWithRequestId == SinkCall("update_case_summary", request_id, final_summary)

\* Line 396: the arguments of the call
SummaryCall == SinkCall("update_case_summary", case_id, final_summary)

\* Lines 389-421: the call of update_case_summary and the response.
UpdateSummary ==
    /\ pc = "sink"
    /\ sinkCalls' = Append(sinkCalls, SummaryCall)
    /\ \E outcome \in SinkOutcomes :
          IF outcome = "updated" \/ SinkCaught(outcome)
          THEN /\ db' = update_case_summary(db, SummaryCall.text, outcome = "updated")
               /\ success' = IF outcome = "updated" THEN "True" ELSE "False"
               /\ response' = StartedResponse
               /\ pc' = "finally"
               /\ UNCHANGED uncaught
          ELSE /\ Raise(outcome, <<"update_case_summary: ", outcome>>)
               /\ UNCHANGED <<db, success>>
    /\ UNCHANGED <<files, case_id, additional_data, request_id, workDir, rawDir,
                   saveIdx, saved_files, document_files, text_files, convIdx, imagesDir,
                   image_paths, upload_urls, s3_keys, upIdx, s3_keys_mapping,
                   failed_uploads, submitted, job_id, attempt, lastResponse,
                   pollOutcome, final_summary, cleanupReturn, nUrlReq, nPut, nStatus,
                   grouping, urlReply, reqs, running>>

\* Variant: line 432 placed after the success path only: no cleanup on the error paths
CleanupDueOnSuccessOnly == request_id # NoneStr /\ response.status = "processing_started"

\* Line 432, "if request_id:"
CleanupDue == request_id # NoneStr

\* TempStorage.cleanup_request (lines 111-129): shutil.rmtree removes the
\* request directory and True is returned, or it raises, which is printed and
\* answered with False; without a directory True is returned.
cleanup_request(exists, ok) ==
    IF exists
    THEN IF ok THEN [exists |-> FALSE, ret |-> "True"] ELSE [exists |-> TRUE, ret |-> "False"]
    ELSE [exists |-> FALSE, ret |-> "True"]

\* Line 438: IMAGES_OUTPUT_DIR.glob("*.jpeg"), the files whose names end in
\* .jpeg
IsJpeg(name) ==
    /\ Len(name) >= 5
    /\ SubSeq(name, Len(name) - 4, Len(name)) = <<".", "j", "p", "e", "g">>

Globbed(dir) == {x \in dir : IsJpeg(x.name)}

\* Variant: a finally block without the unlink loop
UnlinkedNothing(dir, ok) == dir

\* Lines 437-442: the unlink loop deletes every globbed file (ok), or an
\* unlink raises, which is logged (here: the first one, and every file stays).
Unlinked(dir, ok) == IF ok THEN dir \ Globbed(dir) ELSE dir

\* An unlink can only fail when there is a file to delete.
UnlinkResults(dir) == IF Globbed(dir) = {} THEN {TRUE} ELSE BOOLEAN

\* What the finally block can leave of the output directory
UnlinkOutcomes(dir) == {Unlinked(dir, ok) : ok \in BOOLEAN}

\* Lines 430-442: the finally block; then the handler returns or the uncaught
\* exception goes on to the caller.
Finally ==
    /\ pc = "finally"
    /\ IF CleanupDue
       THEN \E ok \in BOOLEAN :
               LET c == cleanup_request(workDir, ok) IN
               /\ workDir' = c.exists
               /\ cleanupReturn' = c.ret
               /\ rawDir' = IF c.exists THEN rawDir ELSE {}
       ELSE UNCHANGED <<workDir, rawDir, cleanupReturn>>
    /\ imagesDir' \in UnlinkOutcomes(imagesDir)
    /\ pc' = "done"
    /\ UNCHANGED <<files, case_id, additional_data, request_id, saveIdx, saved_files,
                   document_files, text_files, convIdx, image_paths, upload_urls,
                   s3_keys, upIdx, s3_keys_mapping, failed_uploads, submitted, job_id,
                   attempt, lastResponse, pollOutcome, final_summary, db, sinkCalls,
                   response, uncaught, nUrlReq, nPut, nStatus, grouping, urlReply, reqs,
                   running, success>>

Next ==
    \/ Entry
    \/ SaveFile
    \/ Classify
    \/ Convert
    \/ ListAndRename
    \/ GetUploadUrls
    \/ UploadOne
    \/ UploadFinish
    \/ SubmitExtract
    \/ PollAttempt
    \/ PollTimeout
    \/ TimeoutHandler
    \/ UpdateSummary
    \/ Finally

Spec == Init /\ [][Next]_vars

-----------------------------------------------------------------------------
(* The handler up to the submission, on batches of several files *)

PdfA(n) == File(<<"a">>, <<".", "p", "d", "f">>, n, <<>>)
PngB == File(<<"b">>, <<".", "p", "n", "g">>, 1, <<>>)
NoteN == File(<<"n">>, <<".", "t", "x", "t">>, 0, <<"x", "\r\n", "y">>)
NoteM == File(<<"m">>, <<".", "t", "x", "t">>, 0, <<"z">>)

\* Batches of up to BatchSize files drawn from a.pdf (1 or 2 pages), b.png
\* and the notes n.txt and m.txt; and a.pdf of ManyPages pages, alone or
\* with b.png.
Batches ==
    UNION {[1..n -> {PdfA(1), PdfA(2), PngB, NoteN, NoteM}] : n \in 0..BatchSize}
    \cup {<<PdfA(ManyPages)>>, <<PdfA(ManyPages), PngB>>}

FormNotes == {NoText, <<>>, <<"history: none">>}

ArrivalOfBatch == Arrival(Batches, FormNotes)

NextToSubmission ==
    \/ Entry
    \/ SaveFile
    \/ Classify
    \/ Convert
    \/ ListAndRename
    \/ GetUploadUrls
    \/ UploadOne
    \/ UploadFinish
    \/ SubmitExtract
    \/ Finally

SubmissionSpec == ArrivalOfBatch /\ [][NextToSubmission]_vars

-----------------------------------------------------------------------------
(* The handler up to the rename, on uploads whose image names meet *)

MaxConverted == 2

\* Uploads whose converted images share a name or have the form i<k>.jpeg:
\* a.png and a.jpg both give a.jpeg, i1.png gives i1.jpeg; and a.pdf of two
\* pages.
MeetingFiles ==
    {File(<<"a">>, <<".", "p", "n", "g">>, 1, <<>>), File(<<"a">>, <<".", "j", "p", "g">>, 1, <<>>),
     File(<<"i", "1">>, <<".", "p", "n", "g">>, 1, <<>>), PdfA(2)}

MeetingBatches == UNION {[1..n -> MeetingFiles] : n \in 0..MaxConverted}

ArrivalOfMeetingBatch == Arrival(MeetingBatches, {NoText})

NextToRename ==
    \/ Entry
    \/ SaveFile
    \/ Classify
    \/ Convert
    \/ ListAndRename
    \/ Finally

ConversionSpec == ArrivalOfMeetingBatch /\ [][NextToRename]_vars

-----------------------------------------------------------------------------
(* build_s3_keys_by_document (routes.py 59-114), called on its own *)

Min(a, b) == IF a < b THEN a ELSE b

\* name.rfind(".") as a position from 1, 0 when there is no dot
LastDot(name) ==
    LET dots == {i \in 1..Len(name) : name[i] = "."}
    IN  IF dots = {} THEN 0 ELSE CHOOSE i \in dots : \A j \in dots : j <= i

\* Path.stem: the name without its last suffix
PathStem(name) ==
    LET p == LastDot(name)
    IN  IF 1 < p /\ p < Len(name) THEN SubSeq(name, 1, p - 1) ELSE name

\* Variant: without lines 105-112, the last document takes its share only
GroupEndWithoutRemainder(img_idx, per, n, last) == Min(img_idx + per, n)

\* Lines 95-112: the value of img_idx after the images of one document are
\* taken: up to images_per_doc of them, and all that remain for the last one.
GroupEnd(img_idx, per, n, last) == IF last THEN n ELSE Min(img_idx + per, n)

\* Lines 91-112: the loop over original_documents from doc_idx on; the dict
\* entries it makes.
RECURSIVE AssignGroups(_, _, _, _, _)
AssignGroups(doc_idx, img_idx, paths, ndocs, per) ==
    IF doc_idx = ndocs THEN <<>>
    ELSE LET stop == GroupEnd(img_idx, per, Len(paths), doc_idx = ndocs - 1)
             group == [i \in 1..(stop - img_idx) |-> PathStem(paths[img_idx + i])]
         IN  (doc_idx :> group) @@ AssignGroups(doc_idx + 1, stop, paths, ndocs, per)

\* Variant: without lines 87-89
ImagesPerDocWithoutMinimum(n, ndocs) == n \div ndocs

\* Lines 79 and 87-89: images_per_doc for n images and ndocs >= 1 documents;
\* a quotient of 0 is replaced by 1.
ImagesPerDoc(n, ndocs) == IF n \div ndocs = 0 THEN 1 ELSE n \div ndocs

\* build_s3_keys_by_document: (s3_keys_by_doc, image_filenames)
build_s3_keys_by_document(paths, original_documents) ==
    LET ndocs == Len(original_documents)
    IN  IF ndocs = 0 THEN << <<>>, paths >>
        ELSE << AssignGroups(0, 0, paths, ndocs, ImagesPerDoc(Len(paths), ndocs)), paths >>

\* The function is called with a list of image paths and a list of documents.
GrouperCalled ==
    /\ pc = "grouper"
    /\ files = <<>>
    /\ case_id = "case-1"
    /\ additional_data = NoText
    /\ image_paths \in UNION {[1..n -> {IName(1), IName(2)}] : n \in 0..MaxImages}
    /\ document_files \in UNION {[1..d -> {File(<<"a">>, <<".", "p", "d", "f">>, 1, <<>>)}] : d \in 0..MaxDocs}
    /\ Untouched
    /\ NoOtherRequests

GrouperReturns ==
    /\ pc = "grouper"
    /\ grouping' = build_s3_keys_by_document(image_paths, document_files)
    /\ pc' = "grouper_returned"
    /\ UNCHANGED <<files, case_id, additional_data, request_id, workDir, rawDir,
                   saveIdx, saved_files, document_files, text_files, convIdx, imagesDir,
                   image_paths, upload_urls, s3_keys, upIdx, s3_keys_mapping,
                   failed_uploads, submitted, job_id, attempt, lastResponse,
                   pollOutcome, final_summary, db, sinkCalls, response, uncaught,
                   cleanupReturn, nUrlReq, nPut, nStatus, urlReply, reqs, running,
                   success>>

GrouperSpec == GrouperCalled /\ [][GrouperReturns]_vars

-----------------------------------------------------------------------------
(* separate_files (routes.py 30-56), called on its own *)

\* Paths of every kind of suffix: a.txt, b.TXT, a.pdf, the unknown suffix of
\* b.zz, and c without a suffix.
RawChoices ==
    {File(<<"a">>, <<".", "t", "x", "t">>, 0, <<>>), File(<<"b">>, <<".", "T", "X", "T">>, 0, <<>>),
     File(<<"a">>, <<".", "p", "d", "f">>, 1, <<>>), File(<<"b">>, <<".", "z", "z">>, 1, <<>>),
     File(<<"c">>, <<>>, 1, <<>>)}

\* The function is called with a list of paths, in any order.
ClassifierCalled ==
    /\ pc = "classifier"
    /\ files \in UNION {[1..n -> RawChoices] : n \in 0..MaxRaw}
    /\ case_id = "case-1"
    /\ additional_data = NoText
    /\ document_files = <<>>
    /\ image_paths = <<>>
    /\ Untouched
    /\ NoOtherRequests

ClassifierReturns ==
    /\ pc = "classifier"
    /\ document_files' = separate_files(files)[1]
    /\ text_files' = separate_files(files)[2]
    /\ pc' = "classifier_returned"
    /\ UNCHANGED <<files, case_id, additional_data, request_id, workDir, rawDir,
                   saveIdx, saved_files, convIdx, imagesDir, image_paths, upload_urls,
                   s3_keys, upIdx, s3_keys_mapping, failed_uploads, submitted, job_id,
                   attempt, lastResponse, pollOutcome, final_summary, db, sinkCalls,
                   response, uncaught, cleanupReturn, nUrlReq, nPut, nStatus, grouping,
                   urlReply, reqs, running, success>>

ClassifierSpec == ClassifierCalled /\ [][ClassifierReturns]_vars

-----------------------------------------------------------------------------
(* Several requests in one server process (routes.py 117-442)               *)
(*                                                                          *)
(* process_case is a coroutine ("async def"): the event loop of the server  *)
(* runs one coroutine at a time, and a coroutine gives the loop up only at  *)
(* an await expression or when it returns.  The converter, the HTTP calls   *)
(* of uploader.py and ai_pipeline.py, time.sleep and the Result Sink are    *)
(* blocking calls made without await.  Every request has its own request    *)
(* directory (uuid4); IMAGES_OUTPUT_DIR (lines 25-27) is the same directory *)
(* for all of them: the variable imagesDir.                                 *)

MaxRequests == 2

Requests == 1..MaxRequests

\* The uploads of a request: none, b.png, or a.pdf (one page) and b.png.
ConcurrentBatches == {<<>>, <<PngB>>, <<PdfA(1), PngB>>}

\* The locals of one call of process_case.  listed holds the files the
\* listing of line 212 found, each with the document it was converted from;
\* met holds the requests that were in flight at a step of this one;
\* unlinkFailed tells that an unlink of its finally block raised.
Request(batch) ==
    [pc |-> "entry", files |-> batch, saveIdx |-> 0, rawDir |-> {},
     saved_files |-> <<>>, document_files |-> <<>>, convIdx |-> 0,
     image_paths |-> <<>>, listed |-> {}, status |-> NoneStr, met |-> {},
     unlinkFailed |-> FALSE]

\* The call of request r has started and has not returned.
InFlight(r) == reqs[r].pc \notin {"entry", "done"}

\* The server has accepted MaxRequests requests and has started none.
RequestsAccepted ==
    /\ pc = "server"
    /\ files = <<>>
    /\ case_id = "case-1"
    /\ additional_data = NoText
    /\ document_files = <<>>
    /\ image_paths = <<>>
    /\ Untouched
    /\ reqs \in [Requests -> {Request(b) : b \in ConcurrentBatches}]
    /\ running = {}

\* Variant: an await in the conversion loop as well (the converter run in a
\* thread pool)
AwaitsInConversionLoop(q) ==
    \/ /\ q.pc = "save"
       /\ q.saveIdx < Len(q.files)
       /\ FileName(q.files[q.saveIdx + 1]) # <<>>
    \/ /\ q.pc = "convert"
       /\ q.convIdx < Len(q.document_files)

\* Line 170, "content = await file.read()": the one await expression of
\* process_case; the call is at it when the save loop is at a named file.
Awaits(q) ==
    /\ q.pc = "save"
    /\ q.saveIdx < Len(q.files)
    /\ FileName(q.files[q.saveIdx + 1]) # <<>>

\* The event loop can run a step of request r: it is running r, or it is
\* free and r has not started or waits at its await.
CanRun(r) ==
    \/ running = {r}
    \/ running = {} /\ (reqs[r].pc = "entry" \/ Awaits(reqs[r]))

\* A step of the call r: its locals become q and it keeps the event loop.
Step(r, q) ==
    /\ CanRun(r)
    /\ reqs' = [reqs EXCEPT ![r] =
                  [q EXCEPT !.met = @ \cup {s \in Requests \ {r} : InFlight(s)}]]
    /\ running' = {r}

\* The call fails: the except clause of lines 423-428, then the finally block.
Failed(q) == [q EXCEPT !.pc = "finally", !.status = "error"]

\* Line 170: the call is suspended at its await and the event loop is free.
AwaitRead(r) ==
    /\ running = {r}
    /\ Awaits(reqs[r])
    /\ running' = {}
    /\ UNCHANGED <<pc, files, case_id, additional_data, request_id, workDir, rawDir,
                   saveIdx, saved_files, document_files, text_files, convIdx, imagesDir,
                   image_paths, upload_urls, s3_keys, upIdx, s3_keys_mapping,
                   failed_uploads, submitted, job_id, attempt, lastResponse,
                   pollOutcome, final_summary, db, sinkCalls, response, uncaught,
                   cleanupReturn, nUrlReq, nPut, nStatus, grouping, urlReply, reqs,
                   success>>

\* Lines 151-162
RequestEntry(r) ==
    /\ reqs[r].pc = "entry"
    /\ Step(r, IF reqs[r].files = <<>> THEN Failed(reqs[r])
               ELSE [reqs[r] EXCEPT !.pc = StageAfter("entry")])
    /\ UNCHANGED <<pc, files, case_id, additional_data, request_id, workDir, rawDir,
                   saveIdx, saved_files, document_files, text_files, convIdx, imagesDir,
                   image_paths, upload_urls, s3_keys, upIdx, s3_keys_mapping,
                   failed_uploads, submitted, job_id, attempt, lastResponse,
                   pollOutcome, final_summary, db, sinkCalls, response, uncaught,
                   cleanupReturn, nUrlReq, nPut, nStatus, grouping, urlReply, success>>

\* Lines 166-173
RequestSaveFile(r) ==
    LET q == reqs[r] IN
    /\ q.pc = "save"
    /\ q.saveIdx < Len(q.files)
    /\ LET f == q.files[q.saveIdx + 1] IN
       IF FileName(f) = <<>>
       THEN Step(r, [q EXCEPT !.saveIdx = @ + 1])
       ELSE \/ Step(r, [q EXCEPT !.saveIdx = @ + 1,
                                 !.rawDir = save_uploaded_file(@, f),
                                 !.saved_files = Append(@, f)])
            \/ Step(r, Failed(q))
    /\ UNCHANGED <<pc, files, case_id, additional_data, request_id, workDir, rawDir,
                   saveIdx, saved_files, document_files, text_files, convIdx, imagesDir,
                   image_paths, upload_urls, s3_keys, upIdx, s3_keys_mapping,
                   failed_uploads, submitted, job_id, attempt, lastResponse,
                   pollOutcome, final_summary, db, sinkCalls, response, uncaught,
                   cleanupReturn, nUrlReq, nPut, nStatus, grouping, urlReply, success>>

\* Lines 175-197
RequestClassify(r) ==
    LET q == reqs[r]
        parts == separate_files(get_raw_files(q.rawDir))
    IN  /\ q.pc = "save"
        /\ q.saveIdx = Len(q.files)
        /\ Step(r, IF q.saved_files = <<>> \/ parts[1] = <<>> THEN Failed(q)
                   ELSE [q EXCEPT !.document_files = parts[1],
                                  !.pc = StageAfter("save")])
    /\ UNCHANGED <<pc, files, case_id, additional_data, request_id, workDir, rawDir,
                   saveIdx, saved_files, document_files, text_files, convIdx, imagesDir,
                   image_paths, upload_urls, s3_keys, upIdx, s3_keys_mapping,
                   failed_uploads, submitted, job_id, attempt, lastResponse,
                   pollOutcome, final_summary, db, sinkCalls, response, uncaught,
                   cleanupReturn, nUrlReq, nPut, nStatus, grouping, urlReply, success>>

\* Lines 206-209: an image is marked with the request and the document it
\* was converted from.
RequestConvert(r) ==
    LET q == reqs[r] IN
    /\ q.pc = "convert"
    /\ q.convIdx < Len(q.document_files)
    /\ imagesDir' = universal_to_jpeg(imagesDir, q.document_files[q.convIdx + 1],
                                      <<r, q.convIdx + 1>>)
    /\ Step(r, [q EXCEPT !.convIdx = @ + 1])
    /\ UNCHANGED <<pc, files, case_id, additional_data, request_id, workDir, rawDir,
                   saveIdx, saved_files, document_files, text_files, convIdx,
                   image_paths, upload_urls, s3_keys, upIdx, s3_keys_mapping,
                   failed_uploads, submitted, job_id, attempt, lastResponse,
                   pollOutcome, final_summary, db, sinkCalls, response, uncaught,
                   cleanupReturn, nUrlReq, nPut, nStatus, grouping, urlReply, success>>

\* Lines 211-235
RequestListAndRename(r) ==
    LET q == reqs[r]
        listing == SortedImages(imagesDir)
    IN  /\ q.pc = "convert"
        /\ q.convIdx = Len(q.document_files)
        /\ IF NoImages(listing)
           THEN /\ Step(r, Failed(q))
                /\ UNCHANGED imagesDir
           ELSE /\ imagesDir' = RenameAll(imagesDir, listing, 1)
                /\ Step(r, [q EXCEPT !.image_paths = [k \in 1..Len(listing) |-> IName(k)],
                                     !.listed = imagesDir,
                                     !.pc = StageAfter("convert")])
    /\ UNCHANGED <<pc, files, case_id, additional_data, request_id, workDir, rawDir,
                   saveIdx, saved_files, document_files, text_files, convIdx,
                   image_paths, upload_urls, s3_keys, upIdx, s3_keys_mapping,
                   failed_uploads, submitted, job_id, attempt, lastResponse,
                   pollOutcome, final_summary, db, sinkCalls, response, uncaught,
                   cleanupReturn, nUrlReq, nPut, nStatus, grouping, urlReply, success>>

\* Lines 237-421: the stages from the upload-URL request to the Result Sink
\* write, each a blocking call that returns or raises; none of them writes to
\* IMAGES_OUTPUT_DIR.
RequestProceed(r) ==
    LET q == reqs[r] IN
    /\ q.pc \in {"geturls", "upload", "submit", "poll", "sink"}
    /\ \/ Step(r, IF q.pc = "sink"
                  THEN [q EXCEPT !.pc = "finally", !.status = "processing_started"]
                  ELSE [q EXCEPT !.pc = StageAfter(q.pc)])
       \/ q.pc # "sink" /\ Step(r, Failed(q))
    /\ UNCHANGED <<pc, files, case_id, additional_data, request_id, workDir, rawDir,
                   saveIdx, saved_files, document_files, text_files, convIdx, imagesDir,
                   image_paths, upload_urls, s3_keys, upIdx, s3_keys_mapping,
                   failed_uploads, submitted, job_id, attempt, lastResponse,
                   pollOutcome, final_summary, db, sinkCalls, response, uncaught,
                   cleanupReturn, nUrlReq, nPut, nStatus, grouping, urlReply, success>>

\* Lines 430-442: the finally block, then the call returns and the event
\* loop is free.
RequestFinally(r) ==
    LET q == reqs[r] IN
    /\ q.pc = "finally"
    /\ CanRun(r)
    /\ \E ok \in UnlinkResults(imagesDir) :
          /\ imagesDir' = Unlinked(imagesDir, ok)
          /\ reqs' = [reqs EXCEPT ![r] = [q EXCEPT !.pc = "done", !.rawDir = {},
                                                   !.unlinkFailed = ~ok]]
    /\ running' = {}
    /\ UNCHANGED <<pc, files, case_id, additional_data, request_id, workDir, rawDir,
                   saveIdx, saved_files, document_files, text_files, convIdx,
                   image_paths, upload_urls, s3_keys, upIdx, s3_keys_mapping,
                   failed_uploads, submitted, job_id, attempt, lastResponse,
                   pollOutcome, final_summary, db, sinkCalls, response, uncaught,
                   cleanupReturn, nUrlReq, nPut, nStatus, grouping, urlReply, success>>

NextOfRequests ==
    \E r \in Requests :
        \/ AwaitRead(r)
        \/ RequestEntry(r)
        \/ RequestSaveFile(r)
        \/ RequestClassify(r)
        \/ RequestConvert(r)
        \/ RequestListAndRename(r)
        \/ RequestProceed(r)
        \/ RequestFinally(r)

ConcurrentSpec == RequestsAccepted /\ [][NextOfRequests]_vars

-----------------------------------------------------------------------------
(* Properties of process_case and poll_job_status *)

\* The handler has returned (or its exception has gone on to the caller).
Returned == pc = "done"

\* Readings of the last job-status answer
AnsweredNonTerminal ==
    lastResponse.http = "ok" /\ lastResponse.status \notin {"completed", "failed"}
AnsweredFailed == lastResponse.http = "ok" /\ lastResponse.status = "failed"
AnsweredCompletedWithText ==
    /\ lastResponse.http = "ok"
    /\ lastResponse.status = "completed"
    /\ lastResponse.result = "object"
    /\ lastResponse.summary \in Summaries
AnsweredCompletedWithoutText ==
    /\ lastResponse.http = "ok"
    /\ lastResponse.status = "completed"
    /\ ~(lastResponse.result = "object" /\ lastResponse.summary \in Summaries)

FailureWrites == {i \in 1..Len(sinkCalls) : sinkCalls[i].op = "update_case_failed"}
SuccessWrites == {i \in 1..Len(sinkCalls) : sinkCalls[i].op = "update_case_summary"}

(* C1: whenever the request directory was created (request_id was bound), it  *)
(* no longer exists when the handler has returned, on every exit path, unless *)
(* cleanup_request reported that the removal failed; and the finally block    *)
(* never changes the response (nor makes an exception escape).                *)
C1_WorkDirRemovedOnEveryExit ==
    /\ [](Returned /\ request_id # NoneStr /\ cleanupReturn # "False" => ~workDir)
    /\ [][pc = "finally" => response' = response /\ uncaught' = uncaught]_vars

\* The directory is gone after a run that ended in the polling timeout.
C1_Witness ==
    /\ Returned
    /\ request_id # NoneStr
    /\ pollOutcome.kind = "timeout"
    /\ cleanupReturn = "True"
    /\ ~workDir

(* C2: no exception leaves process_case; when it has returned, the response   *)
(* is "processing_started" or "error" with a message.                         *)
C2_NoExceptionEscapes ==
    /\ uncaught = NoneStr
    /\ Returned =>
         \/ response.status = "processing_started"
         \/ response.status = "error" /\ response.message # <<>>

\* An AttributeError raised while polling ended as an error response.
C2_Witness ==
    /\ Returned
    /\ pollOutcome = Outcome("missing_result", "AttributeError")
    /\ response.status = "error"

(* C3: while polling, every earlier answer consumed one attempt             *)
(* (attempt = requests issued); once the service has answered "completed"   *)
(* with a result text, after K non-terminal answers, the poller has         *)
(* returned exactly that text and K + 1 <= MAX_POLL_ATTEMPTS status         *)
(* requests were issued, and none is issued afterwards.                     *)
C3_CompletedAfterKReturnsText ==
    /\ pc = "poll" => attempt = nStatus
    /\ AnsweredCompletedWithText =>
         /\ pc \in {"sink", "finally", "done"}
         /\ pollOutcome = Outcome("result", lastResponse.summary)
         /\ final_summary = lastResponse.summary
         /\ nStatus = attempt + 1
         /\ nStatus <= MAX_POLL_ATTEMPTS

\* K = MAX_POLL_ATTEMPTS - 1: the last request of the budget is answered.
C3_Witness ==
    /\ Returned
    /\ AnsweredCompletedWithText
    /\ attempt = MAX_POLL_ATTEMPTS - 1
    /\ nStatus = MAX_POLL_ATTEMPTS
    /\ final_summary = "S2"

(* C4: never more than MAX_POLL_ATTEMPTS status requests are issued; polling  *)
(* ends in TimeoutError exactly when MAX_POLL_ATTEMPTS requests were all      *)
(* answered with a non-terminal status, and then there is no result and no    *)
(* "Job failed".                                                              *)
C4_TimeoutAfterExactlyMaxAttempts ==
    /\ nStatus <= MAX_POLL_ATTEMPTS
    /\ pc = "poll" => attempt = nStatus
    /\ pollOutcome.kind = "timeout" =>
         /\ nStatus = MAX_POLL_ATTEMPTS
         /\ AnsweredNonTerminal
         /\ final_summary = NoneStr
         /\ SuccessWrites = {}
    /\ (AnsweredNonTerminal /\ nStatus = MAX_POLL_ATTEMPTS /\ pc # "poll") =>
         pollOutcome.kind = "timeout"

C4_Witness ==
    /\ Returned
    /\ pollOutcome.kind = "timeout"
    /\ nStatus = MAX_POLL_ATTEMPTS

(* C5: once the service has answered "failed" (to the n-th request), the   *)
(* poller has stopped: n requests in all, the outcome is "Job failed" with *)
(* the error text of the answer, no result, and not the timeout.           *)
C5_FailedStopsImmediately ==
    AnsweredFailed =>
        /\ pc \in {"finally", "done"}
        /\ nStatus = attempt + 1
        /\ pollOutcome.kind = "failed"
        /\ final_summary = NoneStr
        /\ response.status = "error"
        /\ response.message # TimeoutMessage
        /\ lastResponse.error # NoneStr =>
             /\ pollOutcome.text = lastResponse.error
             /\ response.message = <<"Job failed: ", lastResponse.error>>

\* "failed" on attempt 1
C5_Witness ==
    /\ Returned
    /\ AnsweredFailed
    /\ lastResponse.error = "E1"
    /\ nStatus = 1

(* C6 (as claimed): a transport error ends polling at once, without a      *)
(* failure write and without the timeout message; the exhaustion of the    *)
(* attempt budget ends with the failure write and the timeout message.     *)
C6_TransportIsNotTimeout ==
    /\ lastResponse.http = "error" =>
         /\ pc \in {"finally", "done"}
         /\ nStatus = attempt + 1
         /\ pollOutcome.kind = "transport"
         /\ FailureWrites = {}
         /\ response.message # TimeoutMessage
    /\ (Returned /\ pollOutcome.kind = "timeout") =>
         /\ FailureWrites # {}
         /\ response = ErrorResponse(TimeoutMessage)

(* C7: once the service has answered "completed" without a result text (no *)
(* result object, a null one, no final_summary or an empty one), polling   *)
(* has ended as a failure: nothing was returned, no further request is     *)
(* issued, and update_case_summary is not called.                          *)
C7_CompletedWithoutTextFails ==
    AnsweredCompletedWithoutText =>
        /\ pc \in {"finally", "done"}
        /\ nStatus = attempt + 1
        /\ pollOutcome.kind = "missing_result"
        /\ final_summary = NoneStr
        /\ response.status = "error"
        /\ SuccessWrites = {}

\* "completed" with an empty final_summary
C7_Witness ==
    /\ Returned
    /\ AnsweredCompletedWithoutText
    /\ lastResponse.result = "object"
    /\ lastResponse.summary = ""
    /\ response = ErrorResponse(<<"No final_summary in completed result">>)

(* C8 (as claimed): when polling ended in the timeout, the handler has made *)
(* a failure write for the case before it returns, and no success write.    *)
C8_TimeoutMarksCaseFailed ==
    (Returned /\ pollOutcome.kind = "timeout") =>
        /\ \E i \in FailureWrites : sinkCalls[i].case_id = case_id
        /\ SuccessWrites = {}

\* The run reached classification and failed before a job id was obtained.
FailedInStages41to45 ==
    /\ response.status = "error"
    /\ saved_files # <<>>
    /\ saveIdx = Len(files)
    /\ job_id = NoneStr

(* C9 (as claimed): when a run failed in a stage from classification to     *)
(* submission, the case row is no longer "processing" when the handler has  *)
(* returned, or an outcome was recorded with the Result Sink.               *)
C9_FailedRunNotLeftProcessing ==
    (Returned /\ FailedInStages41to45) => (~db.processing \/ sinkCalls # <<>>)

(* C10: update_case_summary is called at most once, only after the poller   *)
(* returned a result text, and with the case id of the request and that     *)
(* text; a run whose poller returned a text has called it when it returns,  *)
(* and answers "processing_started" without the text; a run that answers    *)
(* "error" has not called it.                                               *)
C10_SuccessWriteIffResult ==
    /\ Len(sinkCalls) <= 1
    /\ sinkCalls # <<>> =>
         /\ AnsweredCompletedWithText
         /\ pollOutcome.kind = "result"
         /\ sinkCalls[1] = SinkCall("update_case_summary", case_id, lastResponse.summary)
    /\ (Returned /\ pollOutcome.kind = "result") =>
         /\ Len(sinkCalls) = 1
         /\ response = [status |-> "processing_started", message |-> <<>>,
                        summary_markdown |-> NoneStr]
    /\ (Returned /\ response.status = "error") => sinkCalls = <<>>

\* The success write failed in the database and the run still answers
\* "processing_started".
C10_Witness ==
    /\ Returned
    /\ response.status = "processing_started"
    /\ sinkCalls = <<SinkCall("update_case_summary", case_id, "S1")>>
    /\ db.processing

-----------------------------------------------------------------------------
(* Properties of the stages from upload to submission *)

\* upload_all_images has returned its mapping to process_case.
UploadReturned == pc \in {"submit", "poll", "timeout_handler", "sink"} \/ submitted # <<>>

\* upload_all_images has visited every image, and some image had no upload
\* target or some PUT did not succeed.
UploadStageFailed ==
    /\ pc \notin {"entry", "save", "convert", "geturls", "upload"}
    /\ image_paths # <<>>
    /\ upIdx = Len(image_paths)
    /\ \/ \E k \in 1..Len(image_paths) : image_paths[k] \notin upload_urls
       \/ nPut > Cardinality(DOMAIN s3_keys_mapping)

(* C11: when upload_all_images has returned a mapping, every image had an   *)
(* upload target, one PUT per image was made and each succeeded, and the    *)
(* mapping has exactly one entry per image; when an image had no target or  *)
(* a PUT failed, the run is ending in an error, nothing was submitted to    *)
(* the extraction service and no job id was obtained.                       *)
C11_UploadAllOrNothing ==
    /\ UploadReturned =>
         /\ \A k \in 1..Len(image_paths) : image_paths[k] \in upload_urls
         /\ nPut = Len(image_paths)
         /\ DOMAIN s3_keys_mapping = {image_paths[k] : k \in 1..Len(image_paths)}
         /\ Cardinality(DOMAIN s3_keys_mapping) = Len(image_paths)
    /\ UploadStageFailed =>
         /\ pc \in {"finally", "done"}
         /\ response.status = "error"
         /\ submitted = <<>>
         /\ job_id = NoneStr

\* Of three images two were uploaded and one PUT failed: nothing is submitted.
C11_Witness ==
    /\ Returned
    /\ Len(image_paths) = 3
    /\ nPut = 3
    /\ Cardinality(DOMAIN s3_keys_mapping) = 2
    /\ response.status = "error"
    /\ submitted = <<>>

\* The k-th image is in the output directory and has an upload target.
CanBePut(k) ==
    image_paths[k] \in upload_urls /\ FileExists(imagesDir, image_paths[k])

Submitted == submitted # <<>> /\ pc \in {"poll", "finally"}

\* The images of the output directory that hold pages of the d-th converted
\* document, in page order.
RECURSIVE ByPage(_)
ByPage(S) ==
    IF S = {} THEN <<>>
    ELSE LET m == CHOOSE x \in S : \A y \in S : x.pg <= y.pg
         IN <<m>> \o ByPage(S \ {m})
ImagesOfDocument(d) == ByPage({x \in imagesDir : x.doc = d})

\* The storage keys under which the images of the d-th document were uploaded
KeysOfDocument(d) ==
    [i \in 1..Len(ImagesOfDocument(d)) |-> s3_keys_mapping[ImagesOfDocument(d)[i].name]]

(* C12 (as claimed): the submitted clinical_data has one group per converted  *)
(* document, in document order, and group d holds exactly the storage keys of *)
(* the images of document d.                                                  *)
C12_OneGroupPerDocument ==
    Submitted =>
        LET clinical_data == submitted[1].clinical_data IN
        /\ Len(clinical_data) = Len(document_files)
        /\ \A d \in 1..Len(clinical_data) : clinical_data[d] = KeysOfDocument(d)

\* The keys of the submitted clinical_data, group after group
RECURSIVE Flat(_)
Flat(groups) == IF groups = <<>> THEN <<>> ELSE Head(groups) \o Flat(Tail(groups))

\* The image that was uploaded under a storage key
ImageOfKey(key) == CHOOSE x \in imagesDir : KeyOf(x.name) = key

\* Production order: the order of conversion, then the page number
ProducedBefore(x, y) == x.doc < y.doc \/ (x.doc = y.doc /\ x.pg < y.pg)

(* C13 (as claimed): the storage keys of the submitted clinical_data are in  *)
(* production order: documents in the order of their conversion, the pages   *)
(* of a document in ascending page number.                                   *)
C13_KeysInProductionOrder ==
    Submitted =>
        LET keys == Flat(submitted[1].clinical_data) IN
        \A i, j \in 1..Len(keys) :
            (i < j /\ keys[i] # NoneStr /\ keys[j] # NoneStr) =>
                ProducedBefore(ImageOfKey(keys[i]), ImageOfKey(keys[j]))

-----------------------------------------------------------------------------
(* Properties of build_s3_keys_by_document *)

\* The groups of a result, document after document
RECURSIVE GroupsFrom(_, _, _)
GroupsFrom(groups, d, ndocs) ==
    IF d = ndocs THEN <<>> ELSE groups[d] \o GroupsFrom(groups, d + 1, ndocs)

RECURSIVE SizesFrom(_, _, _)
SizesFrom(groups, d, ndocs) ==
    IF d = ndocs THEN 0 ELSE Len(groups[d]) + SizesFrom(groups, d + 1, ndocs)

GrouperReturned == pc = "grouper_returned"

(* C14: for a non-empty document list and any image list, the result of     *)
(* build_s3_keys_by_document has one group per document, the group sizes    *)
(* sum to the number of images, and the groups concatenated in document     *)
(* order are the images' stems in the input order (so every image is in     *)
(* exactly one group and no group reorders).                                *)
C14_GroupsPartitionImagesInOrder ==
    (GrouperReturned /\ document_files # <<>>) =>
        LET s3_keys_by_doc == grouping[1]
            ndocs == Len(document_files)
        IN  /\ DOMAIN s3_keys_by_doc = 0..(ndocs - 1)
            /\ SizesFrom(s3_keys_by_doc, 0, ndocs) = Len(image_paths)
            /\ GroupsFrom(s3_keys_by_doc, 0, ndocs)
                 = [i \in 1..Len(image_paths) |-> PathStem(image_paths[i])]

\* Five images over two documents: two for the first, three for the last.
C14_Witness ==
    /\ GrouperReturned
    /\ Len(document_files) = 2
    /\ image_paths = <<IName(1), IName(2), IName(1), IName(2), IName(2)>>
    /\ grouping[1] = (0 :> << <<"i", "1">>, <<"i", "2">> >>)
                     @@ (1 :> << <<"i", "1">>, <<"i", "2">>, <<"i", "2">> >>)

\* The number of images of document d in a result, and the even share
GroupSize(d) == Len(grouping[1][d])
EvenShare == Len(image_paths) \div Len(document_files)

\* The first D-1 documents have the even share each, the last one the rest.
EvenlyDivided ==
    LET ndocs == Len(document_files) IN
    /\ \A d \in 0..(ndocs - 2) : GroupSize(d) = EvenShare
    /\ GroupSize(ndocs - 1) = Len(image_paths) - (ndocs - 1) * EvenShare

\* The groups are consecutive runs of the image list, in document order.
ConsecutiveRuns ==
    GroupsFrom(grouping[1], 0, Len(document_files))
        = [i \in 1..Len(image_paths) |-> PathStem(image_paths[i])]

(* C24 (as claimed): for D >= 1 documents and any number N of images, each  *)
(* of the first D-1 documents has exactly floor(N/D) consecutive images and *)
(* the last document has all the remaining ones, also when N < D.           *)
C24_EvenShareForEveryN ==
    (GrouperReturned /\ document_files # <<>>) => (EvenlyDivided /\ ConsecutiveRuns)

(* C24 (amended): for N >= D the first D-1 documents have floor(N/D)        *)
(* consecutive images each and the last one all the remaining ones; for     *)
(* N < D the first N documents have one image each, in order, and the other *)
(* documents have none.                                                     *)
C24_EvenShareWhenEnoughImages ==
    (GrouperReturned /\ document_files # <<>>) =>
        /\ ConsecutiveRuns
        /\ IF Len(image_paths) >= Len(document_files)
           THEN EvenlyDivided
           ELSE \A d \in 0..(Len(document_files) - 1) :
                    GroupSize(d) = IF d < Len(image_paths) THEN 1 ELSE 0

\* Two images over three documents: one each for the first two, none for the
\* last.
C24_Witness ==
    /\ GrouperReturned
    /\ Len(document_files) = 3
    /\ image_paths = <<IName(1), IName(2)>>
    /\ grouping[1] = (0 :> << <<"i", "1">> >>) @@ (1 :> << <<"i", "2">> >>) @@ (2 :> <<>>)

-----------------------------------------------------------------------------
(* Properties of process_case as a whole *)

\* The uploads of the request hold nothing to process: no file at all, or
\* every file is without a filename, a note, or a document of which the
\* converter makes no image.
NothingToProcess ==
    \A k \in 1..Len(files) :
        FileName(files[k]) = <<>> \/ IsTxt(files[k]) \/ files[k].pages = 0

\* No request was sent to any service and the Result Sink was not called.
NoExternalEffect ==
    /\ nUrlReq = 0
    /\ nPut = 0
    /\ submitted = <<>>
    /\ nStatus = 0
    /\ sinkCalls = <<>>

RECURSIVE BlankLineJoin(_)
BlankLineJoin(texts) ==
    IF texts = <<>> THEN <<>>
    ELSE IF Len(texts) = 1 THEN texts[1]
    ELSE texts[1] \o <<"\n\n">> \o BlankLineJoin(Tail(texts))

\* The additional_data the payload should carry for the form notes and the
\* contents of the contributing note files; NoText: the field is omitted.
NotesExpected(form, contents) ==
    LET given == form # NoText /\ form # <<>> IN
    IF contents = <<>> THEN (IF given THEN form ELSE NoText)
    ELSE IF given THEN form \o <<"\n\n">> \o BlankLineJoin(contents)
    ELSE BlankLineJoin(contents)

\* The note files of positions S of text_files, in order
Contributing(S) == SelectSeq([i \in 1..Len(text_files) |-> i], LAMBDA i : i \in S)

(* C16 (as claimed): the additional_data of the submitted payload is the    *)
(* form notes alone, the verbatim contents of the contributing note files   *)
(* joined by a blank line, the form notes followed by a blank line and      *)
(* those contents, or omitted, according to what exists.                    *)
C16_NotesFormFirstThenFilesVerbatim ==
    Submitted =>
        \E S \in SUBSET (1..Len(text_files)) :
            submitted[1].additional_data =
                NotesExpected(additional_data,
                              [i \in 1..Len(Contributing(S)) |-> text_files[Contributing(S)[i]].text])

\* The same with the contents as read in text mode: every line terminator of
\* a note file arrives as "\n".
NotesAsReadInTextMode ==
    Submitted =>
        \E S \in SUBSET (1..Len(text_files)) :
            submitted[1].additional_data =
                NotesExpected(additional_data,
                              [i \in 1..Len(Contributing(S)) |-> TextOf(text_files[Contributing(S)[i]])])

(* C17: when the extraction request was sent and no job identifier was      *)
(* obtained (transport failure, or a response without a non-empty job_id),  *)
(* the run is ending in an error: one extraction request in all, no         *)
(* job-status request, no call of update_case_summary.  No run sends more   *)
(* than one extraction request.                                             *)
C17_SubmissionFailureIsFatal ==
    /\ Len(submitted) <= 1
    /\ (submitted # <<>> /\ job_id \in {NoneStr, ""}) =>
         /\ pc \in {"finally", "done"}
         /\ response.status = "error"
         /\ nStatus = 0
         /\ SuccessWrites = {}

\* The response of the extraction service carried no job_id.
C17_Witness ==
    /\ Returned
    /\ Len(submitted) = 1
    /\ job_id = NoneStr
    /\ response = ErrorResponse(<<"No job_id returned from extract API">>)
    /\ nStatus = 0

(* C18: when the upload-URL request failed (service unreachable, timeout or *)
(* a non-success status), the run is ending in an error with exactly one    *)
(* upload-URL request issued, no PUT, no extraction request and no          *)
(* job-status request.                                                      *)
C18_UploadUrlFailureIsFatal ==
    urlReply \in {"unreachable", "timeout", "bad_status"} =>
        /\ pc \in {"finally", "done"}
        /\ response.status = "error"
        /\ nUrlReq = 1
        /\ nPut = 0
        /\ submitted = <<>>
        /\ nStatus = 0
        /\ sinkCalls = <<>>

\* The upload-URL service answered with a non-success status.
C18_Witness ==
    /\ Returned
    /\ urlReply = "bad_status"
    /\ response = ErrorResponse(<<"Failed to get upload URLs: ", "bad_status">>)
    /\ nUrlReq = 1
    /\ nPut = 0

-----------------------------------------------------------------------------
(* Properties of separate_files *)

\* ".txt" in every mix of upper and lower case
TxtSpellings ==
    {<<".", t, x, u>> : t \in {"t", "T"}, x \in {"x", "X"}, u \in {"t", "T"}}

HasTxtSuffix(f) == f.ext \in TxtSpellings
HasOtherSuffix(f) == f.ext \notin TxtSpellings

ClassifierReturned == pc = "classifier_returned"

(* C19: separate_files partitions its input: the notes are exactly the      *)
(* files whose suffix is .txt in any case, the documents are all the other  *)
(* files (known suffix, unknown suffix or none), each list in the input     *)
(* order, so that no file is dropped or put in both lists.                  *)
C19_SeparateFilesPartitions ==
    ClassifierReturned =>
        /\ text_files = SelectSeq(files, HasTxtSuffix)
        /\ document_files = SelectSeq(files, HasOtherSuffix)
        /\ Len(text_files) + Len(document_files) = Len(files)

\* An upper-case .TXT, an unknown suffix and a .txt, in that order.
C19_Witness ==
    /\ ClassifierReturned
    /\ Len(files) = 3
    /\ FileName(files[1]) = <<"b", ".", "T", "X", "T">>
    /\ FileName(files[2]) = <<"b", ".", "z", "z">>
    /\ FileName(files[3]) = <<"a", ".", "t", "x", "t">>
    /\ text_files = <<files[1], files[3]>>
    /\ document_files = <<files[2]>>

-----------------------------------------------------------------------------
(* The order of the external effects of one request *)

-----------------------------------------------------------------------------
(* Properties of concurrent requests *)

\* Request r is between its first converter invocation and the end of its
\* finally block.
InDirectoryUse(r) == reqs[r].convIdx >= 1 /\ reqs[r].pc # "done"

\* The calls of requests r and s were in flight at the same time.
Concurrent(r, s) == s \in reqs[r].met \/ r \in reqs[s].met

(* C21 (as claimed): no image that the listing of a request found was      *)
(* converted from a document of a request processed concurrently with it.  *)
C21_OnlyOwnImagesListed ==
    \A r \in Requests : \A x \in reqs[r].listed :
        x.doc[1] # r => ~Concurrent(r, x.doc[1])

-----------------------------------------------------------------------------
(* Properties of the Result Sink write *)

(* C23: once update_case_summary has been called, it has returned True or  *)
(* False and raised nothing: False exactly when the row was not updated;   *)
(* and with either result the handler answers "processing_started".        *)
C23_SinkFailureNotFatal ==
    sinkCalls # <<>> =>
        /\ pc \in {"finally", "done"}
        /\ success \in {"True", "False"}
        /\ success = "False" <=> db.processing
        /\ uncaught = NoneStr
        /\ response = StartedResponse

\* update_case_summary returned False and the handler has answered.
C23_Witness ==
    /\ Returned
    /\ success = "False"
    /\ db = [summary |-> NoneStr, processing |-> TRUE]
    /\ response.status = "processing_started"

-----------------------------------------------------------------------------
(* Properties of poll_job_status over every sequence of answers *)

\* poll_job_status has been called and has returned or raised.
PollingEnded == pollOutcome # NoOutcome

(* C25: whatever the job-status endpoint answers, poll_job_status issues at  *)
(* most MAX_POLL_ATTEMPTS requests; while it polls, every answer so far had  *)
(* a status other than completed and failed and took one attempt each; an    *)
(* answer of any such status (processing or another value) keeps it polling  *)
(* and adds exactly one to attempt; and when it has ended, its outcome is    *)
(* the one that the last answer determines: the result text for completed    *)
(* with a text, a failure for failed and for completed without a text, the   *)
(* timeout after MAX_POLL_ATTEMPTS such answers, the transport error for a   *)
(* failed request.                                                           *)
C25_PollEndsInOneOfFourOutcomes ==
    /\ nStatus <= MAX_POLL_ATTEMPTS
    /\ (pc = "poll" /\ nStatus > 0) => (AnsweredNonTerminal /\ attempt = nStatus)
    /\ (nStatus > 0 /\ AnsweredNonTerminal /\ ~PollingEnded) => (pc = "poll" /\ attempt = nStatus)
    /\ PollingEnded =>
         /\ pc # "poll"
         /\ pollOutcome.kind \in {"result", "failed", "missing_result", "timeout", "transport"}
         /\ pollOutcome.kind = "result" <=> AnsweredCompletedWithText
         /\ pollOutcome.kind \in {"failed", "missing_result"}
              <=> (AnsweredFailed \/ AnsweredCompletedWithoutText)
         /\ pollOutcome.kind = "transport" <=> lastResponse.http = "error"
         /\ pollOutcome.kind = "timeout" <=> (AnsweredNonTerminal /\ nStatus = MAX_POLL_ATTEMPTS)
         /\ pollOutcome.kind # "timeout" => nStatus = attempt + 1

\* Two answers with a status that is none of processing, completed and
\* failed have taken two attempts, and the poller goes on.
C25_Witness ==
    /\ pc = "poll"
    /\ lastResponse.status = "queued"
    /\ attempt = 2
    /\ nStatus = 2

(* C27 (as claimed): when polling ended in the timeout, the handler answers  *)
(* status "error" with the timeout message, and it gives that message for   *)
(* no other outcome.                                                        *)
C27_TimeoutHasItsOwnMessage ==
    Returned =>
        (pollOutcome.kind = "timeout" <=> response = ErrorResponse(TimeoutMessage))

(* C28 (as claimed): every storage key of a submitted clinical_data is the  *)
(* non-empty key that the upload-URL service assigned to an image of the    *)
(* request.                                                                 *)
C28_SubmittedKeysAssigned ==
    \A n \in 1..Len(submitted) :
        LET keys == Flat(submitted[n].clinical_data) IN
        \A i \in 1..Len(keys) :
            /\ keys[i] # NoneStr
            /\ keys[i] # ""
            /\ \E k \in 1..Len(image_paths) : keys[i] = KeyOf(image_paths[k])

-----------------------------------------------------------------------------
(* Properties of the conversion and the rename *)

\* What an image file holds: the page of the document it was converted from
ContentOf(dir, name) ==
    LET x == CHOOSE y \in dir : y.name = name IN <<x.doc, x.pg>>

\* The step that lists the output directory and renames what it found
RenameStep == pc = "convert" /\ pc' = StageAfter("convert")

(* C29 (as claimed): when the N images of the sorted listing have been      *)
(* renamed, the output directory holds exactly the N files i1.jpeg ..       *)
(* iN.jpeg, and i<k>.jpeg holds what the k-th image of the listing held.    *)
C29_RenameLosesNothing ==
    [][RenameStep =>
         LET listing == SortedImages(imagesDir) IN
         /\ {x.name : x \in imagesDir'} = {IName(k) : k \in 1..Len(listing)}
         /\ Cardinality(imagesDir') = Len(listing)
         /\ \A k \in 1..Len(listing) :
               ContentOf(imagesDir', IName(k)) = ContentOf(imagesDir, listing[k])]_vars

\* The number of image files the converter makes of a document
PagesProduced(f) == Cardinality(universal_to_jpeg({}, f, 0))

RECURSIVE PagesOfFirst(_)
PagesOfFirst(n) ==
    IF n = 0 THEN 0 ELSE PagesOfFirst(n - 1) + PagesProduced(document_files[n])

(* C30 (as claimed): while the documents are converted, the output          *)
(* directory holds one image file for every page produced so far, so that   *)
(* the listing after the last conversion has as many images as the          *)
(* documents produced pages.                                                *)
C30_OneImagePerProducedPage ==
    pc = "convert" => Cardinality(imagesDir) = PagesOfFirst(convIdx)

-----------------------------------------------------------------------------
(* Properties of the saved uploads *)

(* C31 (as claimed): while the uploads are saved, and when the raw files    *)
(* are listed for separate_files, the raw directory lists one file for      *)
(* every upload saved: no saved upload is overwritten by another.           *)
C31_EverySavedFileClassified ==
    pc = "save" => Len(get_raw_files(rawDir)) = Len(saved_files)

-----------------------------------------------------------------------------
(* Properties of the cleanup of the converted images *)

\* The call of request r returns at this step.
Returns(r) == reqs[r].pc # "done" /\ reqs'[r].pc = "done"

\* Request r lists the output directory at this step.
Lists(r) ==
    /\ reqs[r].pc = "convert"
    /\ reqs[r].convIdx = Len(reqs[r].document_files)
    /\ reqs'[r].pc # "convert"

(* C32: when a call of process_case returns, with whatever outcome, and no  *)
(* unlink of its finally block failed, the shared output directory holds no *)
(* .jpeg file; and when a request lists the directory while no deletion of  *)
(* an earlier request has failed, it finds only images converted from its   *)
(* own documents.                                                           *)
C32_NoImagesLeftOver ==
    [][\A r \in Requests :
         /\ (Returns(r) /\ ~reqs'[r].unlinkFailed) => Globbed(imagesDir') = {}
         /\ (Lists(r) /\ \A s \in Requests : ~reqs[s].unlinkFailed) =>
               \A x \in reqs'[r].listed : x.doc[1] = r]_vars

\* A request has returned after it had renamed images, its deletions
\* succeeded, and a request handled after it has listed its own image.
C32_Witness ==
    \E r, s \in Requests :
        /\ r # s
        /\ reqs[r].pc = "done"
        /\ reqs[r].image_paths # <<>>
        /\ reqs[r].status = "error"
        /\ ~reqs[r].unlinkFailed
        /\ ~Concurrent(r, s)
        /\ reqs[s].listed # {}
        /\ reqs[s].pc = "geturls"
        /\ Globbed(imagesDir) # {}
====
